---- MODULE Spec2Model ----
(***************************************************************************)
(* Badge issuers of credentials/apps/badges/issuers.py:                    *)
(* BadgeTemplateIssuer, CredlyBadgeTemplateIssuer and                       *)
(* AccredibleBadgeTemplateIssuer.  A call to award / revoke is a process   *)
(* that walks through get_credential, the atomic issue_credential, the     *)
(* notification, the `propagated` test and the provider round trip.  The   *)
(* credential store is a set of rows; every process holds its own          *)
(* in-memory copy of the row it works on and save() writes that copy back. *)
(***************************************************************************)
EXTENDS Integers, Sequences, FiniteSets, TLC

\* ------------------------------------------------------------------ bounds
MaxCalls == 3
MaxConcCalls == 2

\* --------------------------------------------------------------- universe
Procs == {"p1", "p2"}
SeqProcs == {"p1"}

Issuers == {"BadgeTemplateIssuer", "CredlyBadgeTemplateIssuer", "AccredibleBadgeTemplateIssuer"}
ProviderIssuers == {"CredlyBadgeTemplateIssuer", "AccredibleBadgeTemplateIssuer"}
Ops == {"award", "revoke"}
Usernames == {"alice"}
CredentialIds == {1, 2}
ExtIds == {"ext-1", "ext-2"}
ProviderStates == {"accepted", "revoked", "expired"}
Faults == {"none", "save", "set_credential_attributes", "set_credential_date_override"}

None == "None"
AWARDED == "awarded"
REVOKED == "revoked"

issued_credential_type ==
    [BadgeTemplateIssuer |-> "BadgeTemplate",
     CredlyBadgeTemplateIssuer |-> "CredlyBadgeTemplate",
     AccredibleBadgeTemplateIssuer |-> "AccredibleGroup"]

issued_user_credential_type ==
    [BadgeTemplateIssuer |-> "UserCredential",
     CredlyBadgeTemplateIssuer |-> "CredlyBadge",
     AccredibleBadgeTemplateIssuer |-> "AccredibleBadge"]

REVOCATION_STATES == [CredlyBadge |-> "revoked", AccredibleBadge |-> "expired"]

\* dict.get: the value under the key, None when the key is absent
RevocationState(type) ==
    IF type \in DOMAIN REVOCATION_STATES THEN REVOCATION_STATES[type] ELSE None

\* the credential definitions that exist, per definition type
Definitions == [t \in {"BadgeTemplate", "CredlyBadgeTemplate", "AccredibleGroup"} |-> {1}]

\* state of a row that no provider step has touched yet
DefaultState == "created"

\* ------------------------------------------------------------------ store
VARIABLES store, pc, call, obj, local, err, log, resp, ncalls, hist, outs

vars == <<store, pc, call, obj, local, err, log, resp, ncalls, hist, outs>>

Keys == Issuers \X Usernames \X CredentialIds

NoCall == [issuer |-> None, op |-> None, username |-> None, credential_id |-> 0]
NoResp == [ok |-> FALSE, id |-> None, state |-> None, key |-> None]
NoRecord == [pk |-> 0, type |-> None, credential_content_type |-> None, credential_id |-> 0,
             username |-> None, status |-> None, state |-> None, external |-> None]

\* rows of the store that the composite key of get_or_create selects
Matching(s, type, ct, cid, username) ==
    {r \in s : /\ r.type = type
               /\ r.credential_content_type = ct
               /\ r.credential_id = cid
               /\ r.username = username}

NewRow(s, type, ct, cid, username, status) ==
    [pk |-> Cardinality(s) + 1,
     type |-> type,
     credential_content_type |-> ct,
     credential_id |-> cid,
     username |-> username,
     status |-> status,
     state |-> DefaultState,
     external |-> None]

\* mutant: create() in place of get_or_create()
GetOrCreate_AlwaysCreate(s, type, ct, cid, username, status) ==
    LET new == NewRow(s, type, ct, cid, username, status)
    IN [store |-> s \cup {new}, obj |-> new, created |-> TRUE]

\* objects.get_or_create(username, credential_content_type, credential_id, defaults={status})
GetOrCreate(s, type, ct, cid, username, status) ==
    LET found == Matching(s, type, ct, cid, username) IN
    IF found # {}
    THEN [store |-> s, obj |-> CHOOSE r \in found : TRUE, created |-> FALSE]
    ELSE LET new == NewRow(s, type, ct, cid, username, status)
         IN [store |-> s \cup {new}, obj |-> new, created |-> TRUE]

\* Model.save(): writes every field of the in-memory object to the row with its pk
Save(s, o) == {r \in s : r.pk # o.pk} \cup {o}

\* the `propagated` property of CredlyBadge / AccredibleBadge
Propagated(o) == o.external # None

\* mutant: the revocation guard is missing, status is always written
IssueCredentialBody_NoGuard(s, issuer, cid, username, status, fault) ==
    LET type == issued_user_credential_type[issuer]
        goc == GetOrCreate(s, type, issued_credential_type[issuer], cid, username, status)
        o2 == [goc.obj EXCEPT !.status = status]
    IN  IF fault = "save"
        THEN [store |-> goc.store, obj |-> o2, raised |-> TRUE]
        ELSE [store |-> Save(goc.store, o2), obj |-> o2, raised |-> (fault # "none")]

\* mutant: the local step of award puts the row back to its initial state
IssueCredentialBody_ResetsState(s, issuer, cid, username, status, fault) ==
    LET type == issued_user_credential_type[issuer]
        goc == GetOrCreate(s, type, issued_credential_type[issuer], cid, username, status)
        guard == ~(goc.obj.state = RevocationState(type))
        o2 == IF guard THEN [goc.obj EXCEPT !.status = status, !.state = DefaultState] ELSE goc.obj
    IN  IF guard /\ fault = "save"
        THEN [store |-> goc.store, obj |-> o2, raised |-> TRUE]
        ELSE [store |-> IF guard THEN Save(goc.store, o2) ELSE goc.store,
              obj |-> o2, raised |-> (fault # "none")]

\* body of issue_credential: get_or_create\* body of issue_credential: get_or_create, guarded status write, the two setters.
\* fault names the statement that raises (a database error), "none" when none does.
IssueCredentialBody(s, issuer, cid, username, status, fault) ==
    LET type == issued_user_credential_type[issuer]
        goc == GetOrCreate(s, type, issued_credential_type[issuer], cid, username, status)
        guard == ~(goc.obj.state = RevocationState(type))
        o2 == IF guard THEN [goc.obj EXCEPT !.status = status] ELSE goc.obj
    IN  IF guard /\ fault = "save"
        THEN [store |-> goc.store, obj |-> o2, raised |-> TRUE]
        ELSE LET s2 == IF guard THEN Save(goc.store, o2) ELSE goc.store IN
             IF fault \in {"set_credential_attributes", "set_credential_date_override"}
             THEN [store |-> s2, obj |-> o2, raised |-> TRUE]
             ELSE [store |-> s2, obj |-> o2, raised |-> FALSE]

\* mutant: the decorator is missing, a failure leaves the partial writes
TransactionAtomic_NoRollback(before, res) == res

\* @transaction.atomic: an exception rolls the store back to what it was on entry
TransactionAtomic(before, res) ==
    IF res.raised THEN [res EXCEPT !.store = before] ELSE res

issue_credential(s, issuer, cid, username, status, fault) ==
    TransactionAtomic(s, IssueCredentialBody(s, issuer, cid, username, status, fault))

StatusOf(op) == IF op = "award" THEN AWARDED ELSE REVOKED

Finished == {"idle", "returned", "raised"}

\* ------------------------------------------------------------------- Init
Init ==
    /\ store = {}
    /\ pc = [p \in Procs |-> "idle"]
    /\ call = [p \in Procs |-> NoCall]
    /\ obj = [p \in Procs |-> NoRecord]
    /\ local = [p \in Procs |-> NoRecord]
    /\ err = [p \in Procs |-> None]
    /\ log = [p \in Procs |-> <<>>]
    /\ resp = [p \in Procs |-> NoResp]
    /\ ncalls = 0
    /\ hist = [k \in Keys |-> <<>>]
    /\ outs = [k \in Keys |-> <<>>]

\* ---------------------------------------------------------------- actions
\* a caller invokes issuer.award(username, credential_id) or issuer.revoke(credential_id, username)
Call(p, issuer, op, username, cid) ==
    /\ pc[p] \in Finished
    /\ ncalls < MaxCalls
    /\ ncalls' = ncalls + 1
    /\ pc' = [pc EXCEPT ![p] = "get_credential"]
    /\ call' = [call EXCEPT ![p] = [issuer |-> issuer, op |-> op, username |-> username,
                                    credential_id |-> cid]]
    /\ obj' = [obj EXCEPT ![p] = NoRecord]
    /\ local' = [local EXCEPT ![p] = NoRecord]
    /\ err' = [err EXCEPT ![p] = None]
    /\ log' = [log EXCEPT ![p] = <<>>]
    /\ resp' = [resp EXCEPT ![p] = NoResp]
    /\ UNCHANGED <<store, hist, outs>>

\* mutant: a lookup that never fails
Resolves_Always(issuer, cid) == TRUE

\* issued_credential_type.objects.get(id=credential_id) finds a definition
Resolves(issuer, cid) == cid \in Definitions[issued_credential_type[issuer]]

\* self.get_credential(credential_id): objects.get(id=...) raises DoesNotExist
get_credential(p) ==
    /\ pc[p] = "get_credential"
    /\ IF Resolves(call[p].issuer, call[p].credential_id)
       THEN /\ pc' = [pc EXCEPT ![p] = "issue_credential"]
            /\ err' = err
       ELSE /\ pc' = [pc EXCEPT ![p] = "raised"]
            /\ err' = [err EXCEPT ![p] = "DoesNotExist"]
    /\ UNCHANGED <<store, call, obj, local, log, resp, ncalls, hist, outs>>

\* self.issue_credential(credential, username[, status=REVOKED]);
\* fault is the statement of issue_credential at which the database raises, if any
IssueCredential(p, fault) ==
    /\ pc[p] = "issue_credential"
    /\ LET c == call[p]
           res == issue_credential(store, c.issuer, c.credential_id, c.username,
                                   StatusOf(c.op), fault)
           k == <<c.issuer, c.username, c.credential_id>>
       IN  /\ store' = res.store
           /\ IF res.raised
              THEN /\ pc' = [pc EXCEPT ![p] = "raised"]
                   /\ err' = [err EXCEPT ![p] = "DatabaseError"]
                   /\ UNCHANGED <<obj, local, log, hist>>
              ELSE /\ pc' = [pc EXCEPT ![p] = "notify"]
                   /\ obj' = [obj EXCEPT ![p] = res.obj]
                   /\ local' = [local EXCEPT ![p] = res.obj]
                   /\ log' = [log EXCEPT ![p] = Append(@, "issue_credential")]
                   /\ hist' = [hist EXCEPT ![k] = Append(@, c.op)]
                   /\ err' = err
    /\ UNCHANGED <<call, resp, ncalls, outs>>

\* mutant: revoke sends the signal of award
NotificationFor_AlwaysAwarded(op) == "notify_badge_awarded"

\* the signal that base award / revoke sends
NotificationFor(op) == IF op = "award" THEN "notify_badge_awarded" ELSE "notify_badge_revoked"

\* notify_badge_awarded(user_credential) / notify_badge_revoked(user_credential); return
Notify(p) ==
    /\ pc[p] = "notify"
    /\ log' = [log EXCEPT ![p] = Append(@, NotificationFor(call[p].op))]
    /\ pc' = [pc EXCEPT ![p] = IF call[p].issuer \in ProviderIssuers
                               THEN "propagated" ELSE "returned"]
    /\ UNCHANGED <<store, call, obj, local, err, resp, ncalls, hist, outs>>

\* mutant: revoke calls the provider without looking at `propagated`
NeedsProviderCall_RevokeAlways(op, o) == IF op = "award" THEN ~Propagated(o) ELSE TRUE

\* mutant: revoke skips the provider when the last provider call left state "error"
NeedsProviderCall_RevokeUnlessError(op, o) ==
    IF op = "award" THEN ~Propagated(o) ELSE (Propagated(o) /\ o.state # "error")

\* mutant: award issues the external badge without looking at `propagated`
NeedsProviderCall_AwardAlways(op, o) == IF op = "award" THEN TRUE ELSE Propagated(o)

\* award: `if not badge.propagated`;  revoke: `if user_credential.propagated`
NeedsProviderCall(op, o) == IF op = "award" THEN ~Propagated(o) ELSE Propagated(o)

\* subclass award: if not badge.propagated: issue_*_badge;  revoke: if propagated: revoke_*_badge
CheckPropagated(p) ==
    /\ pc[p] = "propagated"
    /\ pc' = [pc EXCEPT ![p] = IF NeedsProviderCall(call[p].op, obj[p])
                               THEN "provider_call" ELSE "returned"]
    /\ UNCHANGED <<store, call, obj, local, err, log, resp, ncalls, hist, outs>>

\* the badge that the request names: revoke_badge(user_credential.external_uuid / external_id, ...),
\* none for issue_badge
ProviderKey(op, o) == IF op = "revoke" THEN o.external ELSE None

\* api.issue_badge(data) / api.revoke_badge(external id, data): the round trip to the provider;
\* resp keeps the request key and the response (ok = FALSE: BadgeProviderError) of the call
ProviderCall(p, ok, id, state) ==
    /\ pc[p] = "provider_call"
    /\ log' = [log EXCEPT ![p] = Append(@, IF call[p].op = "award"
                                           THEN "issue_badge" ELSE "revoke_badge")]
    /\ resp' = [resp EXCEPT ![p] =
                    IF ok THEN [ok |-> TRUE, id |-> id, state |-> state, key |-> ProviderKey(call[p].op, obj[p])]
                          ELSE [NoResp EXCEPT !.key = ProviderKey(call[p].op, obj[p])]]
    /\ pc' = [pc EXCEPT ![p] = "provider_save"]
    /\ UNCHANGED <<store, call, obj, local, err, ncalls, hist, outs>>

\* mutant: the Credly revoke step copies the response id as the issue step does
ProviderAssign_RevokeCopiesId(o, issuer, op, r) ==
    IF ~r.ok THEN [o EXCEPT !.state = "error"]
    ELSE IF issuer = "CredlyBadgeTemplateIssuer"
         THEN [o EXCEPT !.external = r.id, !.state = r.state]
         ELSE IF op = "award"
              THEN [o EXCEPT !.external = r.id, !.state = "accepted"]
              ELSE [o EXCEPT !.state = "expired"]

\* mutant: the Accredible steps copy the state of the response as the Credly steps do
ProviderAssign_AccredibleCopiesState(o, issuer, op, r) ==
    IF ~r.ok THEN [o EXCEPT !.state = "error"]
    ELSE IF op = "award"
         THEN [o EXCEPT !.external = r.id, !.state = r.state]
         ELSE [o EXCEPT !.state = r.state]

\* mutant: the except branch writes "error" to status in place of state
ProviderAssign_ErrorIntoStatus(o, issuer, op, r) ==
    IF ~r.ok THEN [o EXCEPT !.status = "error"]
    ELSE IF issuer = "CredlyBadgeTemplateIssuer"
         THEN IF op = "award"
              THEN [o EXCEPT !.external = r.id, !.state = r.state]
              ELSE [o EXCEPT !.state = r.state]
         ELSE IF op = "award"
              THEN [o EXCEPT !.external = r.id, !.state = "accepted"]
              ELSE [o EXCEPT !.state = "expired"]

\* mutant: the except branch re-raises without marking the record
ProviderAssign_NoErrorMark(o, issuer, op, r) ==
    IF ~r.ok THEN o
    ELSE IF issuer = "CredlyBadgeTemplateIssuer"
         THEN IF op = "award"
              THEN [o EXCEPT !.external = r.id, !.state = r.state]
              ELSE [o EXCEPT !.state = r.state]
         ELSE IF op = "award"
              THEN [o EXCEPT !.external = r.id, !.state = "accepted"]
              ELSE [o EXCEPT !.state = "expired"]

\* what the provider step assigns to the in-memory object before save()
ProviderAssign(o, issuer, op, r) ==
    IF ~r.ok THEN [o EXCEPT !.state = "error"]
    ELSE IF issuer = "CredlyBadgeTemplateIssuer"
         THEN IF op = "award"
              THEN [o EXCEPT !.external = r.id, !.state = r.state]
              ELSE [o EXCEPT !.state = r.state]
         ELSE IF op = "award"
              THEN [o EXCEPT !.external = r.id, !.state = "accepted"]
              ELSE [o EXCEPT !.state = "expired"]

\* how a provider step ended: issue_*_badge / revoke_*_badge returned or raised
ProviderOutcome(op, ok) ==
    IF op = "award" THEN (IF ok THEN "issue_ok" ELSE "issue_error")
                    ELSE (IF ok THEN "revoke_ok" ELSE "revoke_error")

\* except BadgeProviderError: state = "error"; save(); raise  /  success: copy fields; save()
ProviderSave(p) ==
    /\ pc[p] = "provider_save"
    /\ LET o == ProviderAssign(obj[p], call[p].issuer, call[p].op, resp[p])
       IN  /\ obj' = [obj EXCEPT ![p] = o]
           /\ store' = Save(store, o)
    /\ IF resp[p].ok
       THEN /\ pc' = [pc EXCEPT ![p] = "returned"]
            /\ err' = err
       ELSE /\ pc' = [pc EXCEPT ![p] = "raised"]
            /\ err' = [err EXCEPT ![p] = "BadgeProviderError"]
    /\ outs' = [outs EXCEPT ![<<call[p].issuer, call[p].username, call[p].credential_id>>] =
                    Append(@, ProviderOutcome(call[p].op, resp[p].ok))]
    /\ UNCHANGED <<call, local, log, resp, ncalls, hist>>

\* ------------------------------------------------------- specifications
\* sequential callers: one call at a time
Next ==
    \E p \in SeqProcs :
        \/ \E i \in Issuers, op \in Ops, u \in Usernames, c \in CredentialIds :
              Call(p, i, op, u, c)
        \/ get_credential(p)
        \/ \E f \in Faults : IssueCredential(p, f)
        \/ Notify(p)
        \/ CheckPropagated(p)
        \/ \E ok \in BOOLEAN, id \in ExtIds, st \in ProviderStates : ProviderCall(p, ok, id, st)
        \/ ProviderSave(p)

Spec == Init /\ [][Next]_vars

\* concurrent callers: two calls may be in progress at once, each at its own position
ConcNext ==
    \E p \in Procs :
        \/ \E i \in Issuers, op \in Ops, u \in Usernames, c \in CredentialIds :
              ncalls < MaxConcCalls /\ Call(p, i, op, u, c)
        \/ get_credential(p)
        \/ \E f \in Faults : IssueCredential(p, f)
        \/ Notify(p)
        \/ CheckPropagated(p)
        \/ \E ok \in BOOLEAN, id \in ExtIds, st \in ProviderStates : ProviderCall(p, ok, id, st)
        \/ ProviderSave(p)

SpecConc == Init /\ [][ConcNext]_vars

\* ------------------------------------------------------------------ claims
CallKey(p) == <<call[p].issuer, call[p].username, call[p].credential_id>>

\* the User Credential rows of a (issuer, username, credential id) triple
RowsOf(s, k) ==
    {r \in s : /\ r.type = issued_user_credential_type[k[1]]
               /\ r.username = k[2]
               /\ r.credential_id = k[3]}

Count(seq, e) == Cardinality({i \in 1..Len(seq) : seq[i] = e})
ProviderCalls(p) == Count(log[p], "issue_badge") + Count(log[p], "revoke_badge")
Notifications(p) == Count(log[p], "notify_badge_awarded") + Count(log[p], "notify_badge_revoked")

\* positions of a call at which its local step (issue_credential) has completed
AfterLocal(p) == /\ pc[p] \in {"notify", "propagated", "provider_call", "provider_save",
                               "returned", "raised"}
                 /\ local[p] # NoRecord

\* C1: in every reachable state at most one User Credential row exists per
\* (username, credential definition) pair.
C1_AtMostOnePerPair ==
    \A r1 \in store : \A r2 \in store :
        (/\ r1.username = r2.username
         /\ r1.credential_content_type = r2.credential_content_type
         /\ r1.credential_id = r2.credential_id) => r1 = r2

C1_Witness ==
    \E k \in Keys : Len(hist[k]) >= 2 /\ Cardinality(RowsOf(store, k)) = 1 /\ Cardinality(store) >= 2

\* C2: when the row's state is the provider's terminal revocation state, the local
\* step of an award call leaves the row (its status included) as it was, and it
\* completes without raising when the database does not fail.
C2_GuardKeepsStatus ==
    [][\A p \in Procs :
         (pc[p] = "issue_credential" /\ call[p].op = "award" /\ call[p].issuer \in ProviderIssuers)
         => \A r \in RowsOf(store, CallKey(p)) :
              r.state = REVOCATION_STATES[r.type]
              => /\ pc'[p] # "issue_credential" => r \in store'
                 /\ IssueCredential(p, "none")
                      => pc'[p] = "notify" /\ err'[p] = None /\ obj'[p] = r]_vars

C2_Witness ==
    \E p \in Procs :
        /\ pc[p] = "notify" /\ call[p].op = "award" /\ call[p].issuer \in ProviderIssuers
        /\ obj[p].state = REVOCATION_STATES[obj[p].type]
        /\ obj[p].status = REVOKED

\* C3: starting from no row for a pair, after two award calls whose local step
\* completed there is exactly one row for the pair and its status is AWARDED.
C3_AwardTwice ==
    \A k \in Keys :
        hist[k] = <<"award", "award">>
        => /\ Cardinality(RowsOf(store, k)) = 1
           /\ \A r \in RowsOf(store, k) : r.status = AWARDED

C3_Witness ==
    \E k \in Keys : /\ hist[k] = <<"award", "award">>
                    /\ k[1] \in ProviderIssuers
                    /\ \E p \in Procs : pc[p] = "raised" /\ CallKey(p) = k
                                        /\ err[p] = "BadgeProviderError"

\* C4: revoke after award leaves one row for the pair, with status REVOKED.
C4_RevokeAfterAward ==
    \A k \in Keys :
        (/\ Len(hist[k]) >= 2
         /\ hist[k][Len(hist[k])] = "revoke"
         /\ hist[k][Len(hist[k]) - 1] = "award")
        => /\ Cardinality(RowsOf(store, k)) = 1
           /\ \A r \in RowsOf(store, k) : r.status = REVOKED

\* C5: once the local step of a revoke call has completed, the row's status is REVOKED.
C5_RevokeSetsRevoked ==
    \A p \in Procs :
        (AfterLocal(p) /\ call[p].op = "revoke")
        => \A r \in RowsOf(store, CallKey(p)) : r.status = REVOKED

\* C6: a finished award call on a provider issuer has made exactly one external
\* issue call when the row was not propagated after the local step and none when it
\* was; when it returns, it returns the stored row.
C6_IssueCallCount ==
    \A p \in Procs :
        (/\ AfterLocal(p) /\ pc[p] \in {"returned", "raised"}
         /\ call[p].op = "award" /\ call[p].issuer \in ProviderIssuers)
        => /\ Count(log[p], "issue_badge") = (IF Propagated(local[p]) THEN 0 ELSE 1)
           /\ Count(log[p], "revoke_badge") = 0
           /\ pc[p] = "returned" => (obj[p] \in store /\ obj[p].pk = local[p].pk)

C6_Witness ==
    \E p \in Procs :
        /\ pc[p] = "returned" /\ call[p].op = "award" /\ call[p].issuer \in ProviderIssuers
        /\ Propagated(local[p])
        /\ Count(log[p], "issue_badge") = 0

\* C7: when the provider call raised BadgeProviderError, the step that handles it
\* stores state "error", raises BadgeProviderError to the caller, has made exactly
\* one provider call and leaves the status that the local step set.
C7_ProviderError ==
    [][\A p \in Procs :
         (pc[p] = "provider_save" /\ ~resp[p].ok /\ pc'[p] # "provider_save")
         => /\ pc'[p] = "raised"
            /\ err'[p] = "BadgeProviderError"
            /\ ProviderCalls(p)' = 1
            /\ [local[p] EXCEPT !.state = "error"] \in store'
            /\ \A r \in store' : r.pk = local[p].pk => (r.state = "error" /\ r.status = local[p].status)]_vars

C7_Witness ==
    \E p \in Procs :
        /\ pc[p] = "raised" /\ err[p] = "BadgeProviderError"
        /\ call[p].op = "revoke"
        /\ \E r \in store : r.pk = local[p].pk /\ r.state = "error" /\ r.status = REVOKED

\* C8: a failure inside issue_credential leaves the store exactly as it was before the call.
C8_AllOrNothing ==
    [][\A p \in Procs :
         (pc[p] = "issue_credential" /\ pc'[p] = "raised") => store' = store]_vars

C8_Witness ==
    \E p \in Procs :
        /\ pc[p] = "raised" /\ err[p] = "DatabaseError"
        /\ RowsOf(store, CallKey(p)) = {}
        /\ store # {}

\* C9: a call whose local step completed emits exactly one notification, that of its
\* operation, after the upsert and before any provider call; both stay in effect when
\* the provider call fails.
C9_NotifyOrder ==
    \A p \in Procs :
        AfterLocal(p)
        => /\ log[p][1] = "issue_credential"
           /\ pc[p] = "notify" => log[p] = <<"issue_credential">>
           /\ pc[p] # "notify"
                => /\ Len(log[p]) >= 2
                   /\ log[p][2] = (IF call[p].op = "award" THEN "notify_badge_awarded"
                                                             ELSE "notify_badge_revoked")
                   /\ Notifications(p) = 1
                   /\ \A i \in 3..Len(log[p]) : log[p][i] \in {"issue_badge", "revoke_badge"}
           /\ (pc[p] = "raised" /\ err[p] = "BadgeProviderError")
                => \A r \in RowsOf(store, CallKey(p)) : r.status = local[p].status

C9_Witness ==
    \E p \in Procs :
        /\ pc[p] = "raised" /\ err[p] = "BadgeProviderError"
        /\ log[p] = <<"issue_credential", "notify_badge_revoked", "revoke_badge">>

\* C10: a call whose credential id resolves to no definition raises the lookup error
\* and does nothing else: the store is unchanged, nothing is notified, no provider is called.
C10_NotFound ==
    [][\A p \in Procs :
         (/\ pc[p] = "get_credential"
          /\ call[p].credential_id \notin Definitions[issued_credential_type[call[p].issuer]]
          /\ pc'[p] # "get_credential")
         => /\ pc'[p] = "raised"
            /\ err'[p] = "DoesNotExist"
            /\ store' = store
            /\ log'[p] = <<>>
            /\ obj'[p] = NoRecord]_vars

C10_Witness ==
    \E p \in Procs :
        /\ pc[p] = "raised" /\ err[p] = "DoesNotExist"
        /\ store # {}
        /\ log[p] = <<>>

\* C11: a successful Credly issue step stores the id and the state of the response;
\* a successful Credly revoke step stores the state of the response and leaves the
\* external id as it was.
C11_CredlyCopiesResponse ==
    [][\A p \in Procs :
         (/\ pc[p] = "provider_save" /\ pc'[p] # "provider_save"
          /\ resp[p].ok /\ call[p].issuer = "CredlyBadgeTemplateIssuer")
         => \E r2 \in store' :
              /\ r2.pk = obj[p].pk
              /\ \A r3 \in store' : r3.pk = r2.pk => r3 = r2
              /\ r2.state = resp[p].state
              /\ IF call[p].op = "award"
                 THEN r2.external = resp[p].id
                 ELSE \A r \in store : r.pk = r2.pk => r2.external = r.external]_vars

C11_Witness ==
    \E p \in Procs :
        /\ pc[p] = "returned" /\ call[p].issuer = "CredlyBadgeTemplateIssuer"
        /\ call[p].op = "revoke" /\ resp[p].ok
        /\ \E r \in store : /\ r.pk = obj[p].pk
                            /\ r.state = resp[p].state
                            /\ r.external # None /\ r.external # resp[p].id

\* C12: a successful Accredible issue step leaves state "accepted" and a successful
\* Accredible revoke step leaves state "expired", whatever state the response carries.
C12_AccredibleFixedStates ==
    [][\A p \in Procs :
         (/\ pc[p] = "provider_save" /\ pc'[p] # "provider_save"
          /\ resp[p].ok /\ call[p].issuer = "AccredibleBadgeTemplateIssuer")
         => \A r2 \in store' :
              r2.pk = obj[p].pk
              => r2.state = (IF call[p].op = "award" THEN "accepted" ELSE "expired")]_vars

C12_Witness ==
    \E p \in Procs :
        /\ pc[p] = "returned" /\ call[p].issuer = "AccredibleBadgeTemplateIssuer"
        /\ call[p].op = "revoke" /\ resp[p].ok /\ resp[p].state = "accepted"
        /\ \E r \in store : r.pk = obj[p].pk /\ r.state = "expired"

\* what the provider may answer to an issue call: BadgeProviderError or a response
IssueResponses == {NoResp} \cup [ok : {TRUE}, id : ExtIds, state : ProviderStates, key : {None}]

\* award(c) run from start to end on store s, alone, with provider answer r
AwardSerial(s, c, r) ==
    LET res == issue_credential(s, c.issuer, c.credential_id, c.username, AWARDED, "none")
    IN  IF NeedsProviderCall("award", res.obj)
        THEN [store |-> Save(res.store, ProviderAssign(res.obj, c.issuer, "award", r)), calls |-> 1]
        ELSE [store |-> res.store, calls |-> 0]

\* the answer call p got from the provider; any answer when it made no issue call
AnswersOf(p) == IF Count(log[p], "issue_badge") > 0 THEN {resp[p]} ELSE IssueResponses

\* final store and number of issue calls of: the call of p, then the call of q, from the empty store
SerialOutcomes(p, q) ==
    {LET a == AwardSerial({}, call[p], rp)
         b == AwardSerial(a.store, call[q], rq)
     IN [store |-> b.store, calls |-> a.calls + b.calls] : rp \in AnswersOf(p), rq \in AnswersOf(q)}

\* C13: two award calls for the same pair on a provider issuer, started from the empty
\* store and interleaved in any way, end with the row and the number of external issue
\* calls of one of the two serial executions of these calls (same provider answers).
C13_AwardsSerializable ==
    (/\ ncalls = 2
     /\ \A p \in Procs : /\ pc[p] \in {"returned", "raised"} /\ AfterLocal(p)
                         /\ call[p].op = "award" /\ call[p].issuer \in ProviderIssuers
     /\ CallKey("p1") = CallKey("p2"))
    => [store |-> store,
        calls |-> Count(log["p1"], "issue_badge") + Count(log["p2"], "issue_badge")]
          \in (SerialOutcomes("p1", "p2") \cup SerialOutcomes("p2", "p1"))

\* C14: the save of a provider step (issue_*_badge / revoke_*_badge, success or error
\* path) never changes the stored status of a row, in any interleaving of calls.
C14_ProviderSaveKeepsStatus ==
    [][\A p \in Procs :
         (pc[p] = "provider_save" /\ pc'[p] # "provider_save")
         => \A r \in store : \A r2 \in store' : r.pk = r2.pk => r2.status = r.status]_vars

EndsWith(seq, suffix) ==
    /\ Len(seq) >= Len(suffix)
    /\ \A i \in 1..Len(suffix) : seq[Len(seq) - Len(suffix) + i] = suffix[i]

\* no issue step of a pair comes after a successful issue step of that pair
NoIssueAfterIssueOk ==
    /\ \A k \in Keys : \A i \in 1..Len(outs[k]) : \A j \in 1..Len(outs[k]) :
          (i < j /\ outs[k][i] = "issue_ok") => outs[k][j] \notin {"issue_ok", "issue_error"}
    /\ \A p \in Procs :
          (pc[p] \in {"provider_call", "provider_save"} /\ call[p].op = "award")
          => \A i \in 1..Len(outs[CallKey(p)]) : outs[CallKey(p)][i] # "issue_ok"

\* the call of p is an award that follows a successful award and a successful revoke
AwardAfterIssueAndRevoke(p) ==
    /\ call[p].op = "award" /\ call[p].issuer \in ProviderIssuers
    /\ EndsWith(outs[CallKey(p)], <<"issue_ok", "revoke_ok">>)

\* C15 as stated: once an issue call succeeded no later award makes an issue call, and an
\* award that follows a successful award and a successful revoke leaves status REVOKED
\* and makes no issue call.
C15_NoReissueStatusRevoked ==
    /\ NoIssueAfterIssueOk
    /\ \A p \in Procs :
          (/\ AfterLocal(p) /\ AwardAfterIssueAndRevoke(p)
           /\ EndsWith(hist[CallKey(p)], <<"award", "revoke", "award">>))
          => /\ Count(log[p], "issue_badge") = 0
             /\ \A r \in RowsOf(store, CallKey(p)) : r.status = REVOKED

\* C15 amended: once an issue call succeeded no later award makes an issue call; an award
\* that follows a successful award and a successful revoke makes no issue call and, when
\* the revoke left the row in the terminal revocation state, leaves the row as the revoke
\* left it; on the Accredible issuer that is always state "expired" with status REVOKED.
C15_NoReissue ==
    /\ [](/\ NoIssueAfterIssueOk
          /\ \A p \in Procs :
                (AfterLocal(p) /\ AwardAfterIssueAndRevoke(p))
                => Count(log[p], "issue_badge") = 0)
    /\ [][\A p \in Procs :
            (/\ pc[p] = "issue_credential" /\ pc'[p] = "notify"
             /\ AwardAfterIssueAndRevoke(p)
             /\ EndsWith(hist[CallKey(p)], <<"award", "revoke">>))
            => \A r \in RowsOf(store, CallKey(p)) :
                 /\ r.state = REVOCATION_STATES[r.type] => r \in store'
                 /\ call[p].issuer = "AccredibleBadgeTemplateIssuer"
                      => (r.state = "expired" /\ r.status = REVOKED /\ r \in store')]_vars

C15_Witness ==
    \E p \in Procs :
        /\ pc[p] = "returned" /\ AwardAfterIssueAndRevoke(p)
        /\ hist[CallKey(p)] = <<"award", "revoke", "award">>
        /\ Count(log[p], "issue_badge") = 0
        /\ \E r \in RowsOf(store, CallKey(p)) :
              r.status = REVOKED /\ r.state = REVOCATION_STATES[r.type]

\* C16: a finished revoke call on a provider issuer has made exactly one external revoke
\* call, keyed by the stored external id, when the row was propagated after the local
\* step; otherwise it has made no external call and state and external id are as the
\* local step found them.
C16_RevokeCallCount ==
    \A p \in Procs :
        (/\ AfterLocal(p) /\ pc[p] \in {"returned", "raised"}
         /\ call[p].op = "revoke" /\ call[p].issuer \in ProviderIssuers)
        => /\ Count(log[p], "issue_badge") = 0
           /\ IF Propagated(local[p])
              THEN /\ Count(log[p], "revoke_badge") = 1
                   /\ resp[p].key = local[p].external
              ELSE /\ Count(log[p], "revoke_badge") = 0
                   /\ \A r \in RowsOf(store, CallKey(p)) :
                         r.state = local[p].state /\ r.external = local[p].external

C16_Witness ==
    \E p \in Procs :
        /\ pc[p] = "returned" /\ call[p].op = "revoke" /\ call[p].issuer \in ProviderIssuers
        /\ ~Propagated(local[p]) /\ local[p].state = "error"
        /\ Count(log[p], "revoke_badge") = 0
        /\ \E r \in RowsOf(store, CallKey(p)) : r.state = "error" /\ r.status = REVOKED

\* C17: state and external id of a row change only in the save of a provider step, after
\* the provider call of that step; a new row starts with the default state and no
\* external id.
C17_ExternalFieldsFrame ==
    [][/\ \A r \in store : \A r2 \in store' :
            (r.pk = r2.pk /\ (r.state # r2.state \/ r.external # r2.external))
            => \E p \in Procs : /\ pc[p] = "provider_save" /\ pc'[p] \in {"returned", "raised"}
                                /\ obj[p].pk = r.pk
                                /\ ProviderCalls(p) = 1
       /\ \A r2 \in store' :
            (\A r \in store : r.pk # r2.pk) => (r2.state = DefaultState /\ r2.external = None)]_vars

C17_Witness ==
    \E p \in Procs :
        /\ pc[p] = "notify" /\ call[p].op = "award"
        /\ local[p].state = "accepted" /\ local[p].external # None
        /\ local[p] \in store

\* C18: a row comes into existence only in the local step of an award call, a revoke call
\* for a pair without a row creates none, and no call removes a row or adds a second one.
C18_CreatedByAwardOnly ==
    [][\A k \in Keys :
         /\ (RowsOf(store, k) = {} /\ RowsOf(store', k) # {})
              => \E p \in Procs : /\ pc[p] = "issue_credential" /\ pc'[p] = "notify"
                                  /\ CallKey(p) = k /\ call[p].op = "award"
         /\ RowsOf(store, k) # {}
              => \A r \in RowsOf(store, k) : \E r2 \in RowsOf(store', k) : r2.pk = r.pk
         /\ Cardinality(RowsOf(store', k)) <= 1]_vars

\* C19: on the Accredible issuer a row whose state is "expired" has status REVOKED.
C19_ExpiredIsRevoked ==
    \A r \in store :
        (r.type = "AccredibleBadge" /\ r.state = "expired") => r.status = REVOKED

C19_Witness ==
    \E p \in Procs :
        /\ pc[p] = "returned" /\ call[p].op = "award"
        /\ call[p].issuer = "AccredibleBadgeTemplateIssuer"
        /\ local[p].state = "expired"
        /\ \E r \in RowsOf(store, CallKey(p)) : r.state = "expired" /\ r.status = REVOKED

\* C20: a revoke call that follows a failed external revoke call of the same pair finds
\* the row with state "error" and status REVOKED, makes the external revoke call again,
\* keyed by the stored external id, and a success of that call is stored.
C20_RevokeRetried ==
    [][\A p \in Procs :
         (/\ call[p].op = "revoke" /\ call[p].issuer \in ProviderIssuers
          /\ EndsWith(outs[CallKey(p)], <<"revoke_error">>))
         => /\ (pc[p] = "propagated" /\ pc'[p] # "propagated")
                 => /\ pc'[p] = "provider_call"
                    /\ obj[p].state = "error" /\ obj[p].status = REVOKED
                    /\ obj[p].external # None
            /\ (pc[p] = "provider_call" /\ pc'[p] # "provider_call")
                 => /\ Count(log'[p], "revoke_badge") = 1
                    /\ resp'[p].key = obj[p].external
                    /\ \E r \in RowsOf(store, CallKey(p)) : r.external = resp'[p].key
            /\ (pc[p] = "provider_save" /\ pc'[p] = "returned")
                 => \A r \in RowsOf(store', CallKey(p)) :
                       r.state = (IF r.type = "AccredibleBadge" THEN "expired" ELSE resp[p].state)]_vars

C20_Witness ==
    \E p \in Procs :
        /\ pc[p] = "returned" /\ call[p].op = "revoke" /\ call[p].issuer \in ProviderIssuers
        /\ EndsWith(outs[CallKey(p)], <<"issue_ok", "revoke_error", "revoke_ok">>)
        /\ \E r \in RowsOf(store, CallKey(p)) :
              r.state = REVOCATION_STATES[r.type] /\ r.status = REVOKED

====
